---- MODULE Spec2Model ----
(***************************************************************************)
(* A model of DbEntity (src/dbentity.js): one table handle with its lazily *)
(* fetched column metadata, the public operations running on it as         *)
(* asynchronous tasks, and the SQL text and parameter list each operation  *)
(* hands to the pool.                                                      *)
(*                                                                         *)
(* JavaScript strings are TLA+ strings (\o is +, SubSeq is substr).        *)
(* JavaScript values are tagged records, so that values of different types *)
(* can be compared: Str, Num, Null, Undef, Arr, Err.  A plain object is    *)
(* the sequence of its <<key, value>> entries in iteration order.          *)
(***************************************************************************)
EXTENDS Integers, Sequences, FiniteSets, TLC

VARIABLES
    rows,        \* what SHOW COLUMNS reports for the handle's table
    table,       \* this.table
    options,     \* this.options
    metadata,    \* this.metadata: Null until a SHOW COLUMNS call succeeds
    task,        \* per caller: the operation in flight and where it stands
    showCalls,   \* SHOW COLUMNS statements handed to the pool so far
    showFails,   \* SHOW COLUMNS statements the pool has failed so far
    assigns,     \* assignments to this.metadata so far
    nops         \* operations started so far

vars ==
    <<rows, table, options, metadata, task, showCalls, showFails, assigns,
      nops>>

----------------------------------------------------------------------------
(* Bounds of the model. *)

\* operations started on the handle in one behaviour
MaxOps == 3
\* largest generated id the engine reports
MaxInsertId == 2

----------------------------------------------------------------------------
(* JavaScript values. *)

Str(s) == [t |-> "str", s |-> s]
Num(n) == [t |-> "num", n |-> n]
Arr(a) == [t |-> "arr", a |-> a]
Null == [t |-> "null"]
Undef == [t |-> "undef"]

\* _.isNil
isNil(v) == v.t \in {"null", "undef"}

\* string + value
toStr(v) ==
    CASE v.t = "str" -> v.s
      [] v.t = "num" -> ToString(v.n)
      [] v.t = "null" -> "null"
      [] OTHER -> "undefined"

\* _.startsWith(s, prefix)
startsWith(s, prefix) ==
    Len(s) >= Len(prefix) /\ SubSeq(s, 1, Len(prefix)) = prefix

\* s.substr(1)
substr1(s) == SubSeq(s, 2, Len(s))

\* An object is a sequence of entries [k, v]; obj[key] is undefined when absent.
Entry(k, v) == [k |-> k, v |-> v]

hasKey(obj, key) == \E i \in 1..Len(obj) : obj[i].k = key

getProp(obj, key) ==
    IF hasKey(obj, key)
    THEN obj[CHOOSE i \in 1..Len(obj) : obj[i].k = key].v
    ELSE Undef

\* obj[key] = v: an existing key keeps its place, a new one goes last
setProp(obj, key, v) ==
    IF hasKey(obj, key)
    THEN [i \in 1..Len(obj) |-> IF obj[i].k = key THEN Entry(key, v) ELSE obj[i]]
    ELSE Append(obj, Entry(key, v))

\* _.filter(seq, pred) with the predicate given as the set of kept elements
RECURSIVE filterSeq(_, _)
filterSeq(seq, keep) ==
    IF seq = <<>> THEN <<>>
    ELSE (IF Head(seq) \in keep THEN <<Head(seq)>> ELSE <<>>)
         \o filterSeq(Tail(seq), keep)

Range(seq) == {seq[i] : i \in 1..Len(seq)}

----------------------------------------------------------------------------
(* Errors. *)

\* an Error thrown by the library's own code: it carries no code property
Thrown(message) == [t |-> "err", message |-> message, code |-> Undef]

\* an error the pool reports
DbError(code) == [t |-> "err", message |-> "db", code |-> Str(code)]

DbErrors == {DbError("ER_LOCK_DEADLOCK"), DbError("ER_NO_SUCH_TABLE")}

----------------------------------------------------------------------------
(* The handle's options and the column catalogue SHOW COLUMNS reports. *)

DefaultOptions ==
    [created_timestamp_column |-> Str("created"),
     updated_timestamp_column |-> Str("updated"),
     version_number_column |-> Str("version")]

\* an opts object that names no special column
BareOptions ==
    [created_timestamp_column |-> Undef,
     updated_timestamp_column |-> Undef,
     version_number_column |-> Undef]

Row(field, type, key, null, extra) ==
    [Field |-> field, Type |-> type, Key |-> key, Nullable |-> null,
     Default |-> Null, Extra |-> extra]

\* single auto-increment key, version and timestamp columns
CustomerRows ==
    << Row("id", "int(11)", "PRI", "NO", "auto_increment"),
       Row("version", "int(11)", "", "NO", ""),
       Row("updated", "timestamp", "", "NO", ""),
       Row("name", "varchar(255)", "", "NO", ""),
       Row("age", "int(11)", "", "YES", ""),
       Row("created", "timestamp", "", "NO", "") >>

\* composite key, no auto-increment
PairRows ==
    << Row("a", "int(11)", "PRI", "NO", ""),
       Row("qty", "decimal(10,2)", "", "NO", ""),
       Row("b", "varchar(8)", "PRI", "NO", "") >>

\* no key at all
LogRows ==
    << Row("msg", "text", "", "YES", ""),
       Row("at", "datetime", "", "YES", ""),
       Row("seen", "datetime(6)", "", "NO", ""),
       Row("score", "numeric(5,0)", "", "YES", ""),
       Row("mark", "numeric(5,0)", "", "NO", "") >>

Tables ==
    { [name |-> "t_customer", rows |-> CustomerRows],
      [name |-> "t_pair", rows |-> PairRows],
      [name |-> "t_log", rows |-> LogRows] }

\* the column record fetchMetadata builds from one reported row
parseColumn(item, opts) ==
    [column |-> item.Field,
     sql_type |-> item.Type,
     pk |-> item.Key = "PRI",
     nullable |-> item.Nullable = "YES",
     default |-> item.Default,
     autoincrement |-> item.Extra = "auto_increment",
     is_updated_timestamp |->
        ~isNil(opts.updated_timestamp_column)
        /\ Str(item.Field) = opts.updated_timestamp_column,
     is_created_timestamp |->
        ~isNil(opts.created_timestamp_column)
        /\ Str(item.Field) = opts.created_timestamp_column,
     is_updated_version |->
        ~isNil(opts.version_number_column)
        /\ Str(item.Field) = opts.version_number_column]

\* self.metadata after the _.each over the results
parseMetadata(results, opts) ==
    [i \in 1..Len(results) |-> parseColumn(results[i], opts)]

\* _.filter(self.metadata, {pk: true})
pkColumns(md) == filterSeq(md, {c \in Range(md) : c.pk})

----------------------------------------------------------------------------
(* _transformToSafeValue *)

IsoDate == "2024-01-02T10:00:00"

\* moment(input).format('YYYY-MM-DD HH:mm:ss'); the inputs of the model for a
\* date column are IsoDate (local time in, local time out) or no date at all
momentFormat(input) ==
    IF input = Str(IsoDate) THEN Str("2024-01-02 10:00:00")
    ELSE Str("Invalid date")

\* the type test without the dec prefix
emptyNotAllowedNoDec(datatype) ==
    \/ datatype = "datetime"
    \/ datatype = "timestamp"
    \/ startsWith(datatype, "int")
    \/ startsWith(datatype, "num")

\* the type test of the empty-string branch
emptyNotAllowed(datatype) ==
    \/ datatype = "datetime"
    \/ datatype = "timestamp"
    \/ startsWith(datatype, "int")
    \/ startsWith(datatype, "num")
    \/ startsWith(datatype, "dec")

\* a coercion that binds null where the empty string is forbidden
transformEmptyToNull(input, column) ==
    IF input = Str("") /\ emptyNotAllowed(column.sql_type)
    THEN [thrown |-> FALSE, out |-> Null]
    ELSE IF ~isNil(input) /\ column.sql_type \in {"datetime", "timestamp"}
    THEN [thrown |-> FALSE, out |-> momentFormat(input)]
    ELSE [thrown |-> FALSE, out |-> input]

\* [thrown, out, err]: the value returned, or the Error thrown
transformToSafeValue(input, column) ==
    LET datatype == column.sql_type
        nullable == column.nullable
    IN  IF input = Str("")
        THEN IF emptyNotAllowed(datatype)
             THEN IF nullable
                  THEN [thrown |-> FALSE, out |-> Null]
                  ELSE [thrown |-> TRUE,
                        err |-> Thrown(column.column
                                       \o " is not permitted to be empty.")]
             ELSE [thrown |-> FALSE, out |-> input]
        ELSE IF ~isNil(input)
             THEN IF datatype = "datetime" \/ datatype = "timestamp"
                  THEN [thrown |-> FALSE, out |-> momentFormat(input)]
                  ELSE [thrown |-> FALSE, out |-> input]
             ELSE [thrown |-> FALSE, out |-> input]

----------------------------------------------------------------------------
(* _appendOrderByAndLimit *)

\* the loop over opts.orderBy that strips only the minus sign
RECURSIVE callerOrderByKeepPlus(_, _)
callerOrderByKeepPlus(tokens, i) ==
    IF i > Len(tokens) THEN ""
    ELSE LET colname == tokens[i]
             desc == startsWith(colname, "-")
             name == IF desc THEN substr1(colname) ELSE colname
             ord == IF desc THEN "DESC" ELSE "ASC"
         IN  (IF i > 1 THEN ", " ELSE "") \o name \o " " \o ord
             \o callerOrderByKeepPlus(tokens, i + 1)

\* the loop over opts.orderBy, from index i on
RECURSIVE callerOrderBy(_, _)
callerOrderBy(tokens, i) ==
    IF i > Len(tokens) THEN ""
    ELSE LET colname == tokens[i]
             desc == startsWith(colname, "-")
             asc == ~desc /\ startsWith(colname, "+")
             name == IF desc \/ asc THEN substr1(colname) ELSE colname
             ord == IF desc THEN "DESC" ELSE "ASC"
         IN  (IF i > 1 THEN ", " ELSE "") \o name \o " " \o ord
             \o callerOrderBy(tokens, i + 1)

\* what the loop over the key columns adds to sql
RECURSIVE pkOrderSql(_)
pkOrderSql(pks) ==
    IF pks = <<>> THEN ""
    ELSE Head(pks).column \o " ASC" \o pkOrderSql(Tail(pks))

\* what the loop over the key columns adds to orderBy
RECURSIVE pkOrderSeparators(_, _)
pkOrderSeparators(pks, i) ==
    IF i > Len(pks) THEN ""
    ELSE (IF i > 1 THEN ", " ELSE "") \o pkOrderSeparators(pks, i + 1)

appendOrderByAndLimit(sql, opts, md) ==
    LET given == ~isNil(opts)
        callerOrder ==
            IF given /\ ~isNil(opts.orderBy) /\ Len(opts.orderBy.a) > 0
            THEN " ORDER BY " \o callerOrderBy(opts.orderBy.a, 1)
            ELSE ""
        limit ==
            IF given
            THEN (IF ~isNil(opts.limit)
                  THEN " LIMIT " \o toStr(opts.limit)
                  ELSE " LIMIT 1000")
                 \o (IF ~isNil(opts.offset)
                     THEN " OFFSET " \o toStr(opts.offset)
                     ELSE "")
            ELSE ""
        pks == pkColumns(md)
        sql1 == IF callerOrder = ""
                THEN sql \o " ORDER BY " \o pkOrderSql(pks)
                ELSE sql
        orderBy == IF callerOrder = ""
                   THEN pkOrderSeparators(pks, 1)
                   ELSE callerOrder
    IN  sql1 \o orderBy \o limit

----------------------------------------------------------------------------
(* The statement each operation builds once the metadata is there:         *)
(* [thrown |-> FALSE, sql, parms] or [thrown |-> TRUE, err].               *)

Statement(sql, parms) == [thrown |-> FALSE, sql |-> sql, parms |-> parms]
Throws(err) == [thrown |-> TRUE, err |-> err]

\* the _.each over a template object that find and deleteMatching run
RECURSIVE templateWhere(_, _, _, _)
templateWhere(query, i, bool, where) ==
    IF i > Len(query) THEN where
    ELSE templateWhere(query, i + 1, bool,
            (IF where # "" THEN where \o bool ELSE where)
            \o query[i].k \o "=?")

templateParms(query) == [i \in 1..Len(query) |-> query[i].v]

\* the key loop joining its predicates with OR
RECURSIVE pkWhereOr(_, _, _)
pkWhereOr(pks, i, where) ==
    IF i > Len(pks) THEN where
    ELSE pkWhereOr(pks, i + 1,
            (IF where # "" THEN where \o " OR " ELSE where)
            \o pks[i].column \o "=?")

\* the _.each over the key columns that update and deleteOne run
RECURSIVE pkWhere(_, _, _)
pkWhere(pks, i, where) ==
    IF i > Len(pks) THEN where
    ELSE pkWhere(pks, i + 1,
            (IF where # "" THEN where \o " AND " ELSE where)
            \o pks[i].column \o "=?")

pkParms(pks, obj) == [i \in 1..Len(pks) |-> getProp(obj, pks[i].column)]

buildGet(tbl, id) ==
    Statement("SELECT * FROM " \o tbl \o " WHERE id = ?", <<id>>)

buildAll(tbl, opts, md) ==
    Statement(appendOrderByAndLimit("SELECT * FROM " \o tbl \o " ", opts, md),
              <<>>)

buildFind(tbl, query, opts, md) ==
    LET bool == IF ~isNil(opts) /\ ~isNil(opts.booleanMode)
                THEN " " \o toStr(opts.booleanMode) \o " "
                ELSE " AND "
        sql == "SELECT * FROM " \o tbl \o " " \o " WHERE "
               \o templateWhere(query, 1, bool, "")
    IN  Statement(appendOrderByAndLimit(sql, opts, md), templateParms(query))

buildSelectWhere(tbl, where, parms, opts, md) ==
    LET sql == "SELECT * FROM " \o tbl \o " " \o " WHERE " \o where
    IN  Statement(appendOrderByAndLimit(sql, opts, md), <<>>)

\* the columns create writes: every column but an auto-increment key
notAiPks(md) ==
    filterSeq(md, {col \in Range(md) :
                     (col.pk /\ ~col.autoincrement) \/ ~col.pk})

\* the for loop of create, from column i on; acc is [cols, vals, parms] and
\* becomes a Throws record when _transformToSafeValue throws
RECURSIVE createLoop(_, _, _, _, _)
createLoop(columns, i, save, opts, acc) ==
    IF i > Len(columns) THEN acc
    ELSE LET col == columns[i]
             cols == (IF acc.cols # "" THEN acc.cols \o ", " ELSE acc.cols)
                     \o col.column
             vals == IF acc.vals # "" THEN acc.vals \o ", " ELSE acc.vals
             safe == transformToSafeValue(getProp(save, col.column), col)
         IN  IF Str(col.column) = opts.created_timestamp_column
             THEN createLoop(columns, i + 1, save, opts,
                     [acc EXCEPT !.cols = cols,
                                 !.vals = vals \o "CURRENT_TIMESTAMP"])
             ELSE IF Str(col.column) = opts.updated_timestamp_column
             THEN createLoop(columns, i + 1, save, opts,
                     [acc EXCEPT !.cols = cols,
                                 !.vals = vals \o "CURRENT_TIMESTAMP"])
             ELSE IF Str(col.column) = opts.version_number_column
             THEN createLoop(columns, i + 1, save, opts,
                     [acc EXCEPT !.cols = cols, !.vals = vals \o "0"])
             ELSE IF safe.thrown THEN Throws(safe.err)
             ELSE createLoop(columns, i + 1, save, opts,
                     [acc EXCEPT !.cols = cols, !.vals = vals \o "?",
                                 !.parms = Append(acc.parms, safe.out)])

buildCreate(tbl, save, opts, md) ==
    LET acc == createLoop(notAiPks(md), 1, save, opts,
                          [thrown |-> FALSE, cols |-> "", vals |-> "",
                           parms |-> <<>>])
    IN  IF acc.thrown THEN acc
        ELSE Statement("INSERT INTO " \o tbl \o " (" \o acc.cols
                       \o ") VALUES (" \o acc.vals \o ");", acc.parms)

\* _.find(not_pks, {column: k}): the index of the column, 0 when there is none
findNotPk(md, k) ==
    IF \E j \in 1..Len(md) : ~md[j].pk /\ md[j].column = k
    THEN CHOOSE j \in 1..Len(md) : ~md[j].pk /\ md[j].column = k
    ELSE 0

\* the _.each over save of update, from entry i on; acc is [sets, parms]
RECURSIVE updateLoop(_, _, _, _, _)
updateLoop(save, i, md, opts, acc) ==
    IF i > Len(save) THEN acc
    ELSE LET j == findNotPk(md, save[i].k)
             col == md[j]
             sets == IF acc.sets # "" THEN acc.sets \o ", " ELSE acc.sets
             safe == transformToSafeValue(save[i].v, col)
             parmVal == IF isNil(safe.out) THEN Null ELSE safe.out
         IN  IF j = 0
             THEN updateLoop(save, i + 1, md, opts, acc)
             ELSE IF Str(col.column) = opts.created_timestamp_column
             THEN updateLoop(save, i + 1, md, opts, acc)
             ELSE IF Str(col.column) = opts.version_number_column
             THEN updateLoop(save, i + 1, md, opts,
                     [acc EXCEPT !.sets =
                        sets \o toStr(opts.version_number_column) \o "="
                        \o toStr(opts.version_number_column) \o "+1"])
             ELSE IF Str(col.column) = opts.updated_timestamp_column
             THEN updateLoop(save, i + 1, md, opts,
                     [acc EXCEPT !.sets =
                        sets \o col.column \o "=CURRENT_TIMESTAMP"])
             ELSE IF safe.thrown THEN Throws(safe.err)
             ELSE updateLoop(save, i + 1, md, opts,
                     [acc EXCEPT !.sets = sets \o col.column \o "=?",
                                 !.parms = Append(acc.parms, parmVal)])

\* an update that writes every column that is no key, whether the object
\* carries it or not
buildUpdateEveryColumn(tbl, save, opts, md) ==
    LET notPks == filterSeq(md, {col \in Range(md) : ~col.pk})
        dense == [i \in 1..Len(notPks) |->
                    Entry(notPks[i].column, getProp(save, notPks[i].column))]
        acc == updateLoop(dense, 1, md, opts,
                          [thrown |-> FALSE, sets |-> "", parms |-> <<>>])
        pks == pkColumns(md)
    IN  IF acc.thrown THEN acc
        ELSE Statement("UPDATE " \o tbl \o " SET " \o acc.sets \o " WHERE "
                       \o pkWhere(pks, 1, ""),
                       acc.parms \o pkParms(pks, save))

buildUpdate(tbl, save, opts, md) ==
    LET acc == updateLoop(save, 1, md, opts,
                          [thrown |-> FALSE, sets |-> "", parms |-> <<>>])
        pks == pkColumns(md)
    IN  IF acc.thrown THEN acc
        ELSE Statement("UPDATE " \o tbl \o " SET " \o acc.sets \o " WHERE "
                       \o pkWhere(pks, 1, ""),
                       acc.parms \o pkParms(pks, save))

buildDeleteOne(tbl, toDelete, md) ==
    LET pks == pkColumns(md)
    IN  Statement("DELETE FROM " \o tbl \o " WHERE " \o pkWhere(pks, 1, ""),
                  pkParms(pks, toDelete))

buildDelete(tbl, id) ==
    Statement("DELETE FROM " \o tbl \o " WHERE id = ?", <<id>>)

\* sql is never declared in deleteMatching: sql+=' WHERE ' reads it and throws
buildDeleteMatching(tbl, criteria) ==
    Throws(Thrown("sql is not defined"))

buildDeleteWhere(tbl, where, parms) ==
    Statement("DELETE FROM " \o tbl \o " WHERE " \o where, parms)

----------------------------------------------------------------------------
(* The calls the callers make. *)

Obj(entries) == [t |-> "obj", o |-> entries]

Opts(orderBy, limit, offset, booleanMode) ==
    [t |-> "obj", orderBy |-> orderBy, limit |-> limit, offset |-> offset,
     booleanMode |-> booleanMode]

OptsSet ==
    { Undef,
      Opts(Undef, Undef, Undef, Undef),
      Opts(Arr(<<>>), Num(10), Undef, Undef),
      Opts(Arr(<<"-created">>), Num(10), Undef, Undef),
      Opts(Arr(<<"+a", "b", "-qty">>), Num(7), Undef, Str("OR")),
      Opts(Undef, Num(10), Num(20), Undef) }

Templates ==
    { <<>>,
      <<Entry("status", Str("active"))>>,
      <<Entry("b", Str("k")), Entry("a", Null)>> }

Saves ==
    { <<>>,
      <<Entry("id", Num(5)), Entry("name", Str("X"))>>,
      <<Entry("name", Str("X")), Entry("id", Num(5)), Entry("version", Num(3)),
        Entry("updated", Str(IsoDate)), Entry("created", Str(IsoDate)),
        Entry("age", Str(""))>>,
      <<Entry("id", Num(5)), Entry("version", Str(""))>>,
      <<Entry("a", Num(1)), Entry("b", Str("k")), Entry("qty", Str("2.5"))>>,
      <<Entry("b", Str("k")), Entry("qty", Str("")), Entry("a", Num(1))>>,
      <<Entry("msg", Str("")), Entry("at", Str("")), Entry("seen", Str("")),
        Entry("score", Str("")), Entry("mark", Num(1))>>,
      <<Entry("msg", Str("m")), Entry("mark", Str(""))>> }

Call(op, id, obj, where, parms, opts) ==
    [op |-> op, id |-> id, obj |-> obj, where |-> where, parms |-> parms,
     opts |-> opts]

Calls ==
    { Call("get", Num(5), <<>>, "", <<>>, Undef),
      Call("delete", Num(5), <<>>, "", <<>>, Undef),
      Call("deleteWhere", Undef, <<>>, "age > ?", <<Num(30)>>, Undef) }
    \cup { Call("all", Undef, <<>>, "", <<>>, o) : o \in OptsSet }
    \cup { Call("find", Undef, q, "", <<>>, o) : q \in Templates, o \in OptsSet }
    \cup { Call("one", Undef, q, "", <<>>, o) :
             q \in Templates, o \in {Undef, Opts(Undef, Num(1), Undef, Undef)} }
    \cup { Call("selectWhere", Undef, <<>>, "age > ?", <<Num(30)>>, o) :
             o \in {Undef, Opts(Arr(<<"-created">>), Num(10), Undef, Undef)} }
    \cup { Call(op, Undef, s, "", <<>>, Undef) :
             op \in {"create", "update", "deleteOne"}, s \in Saves }
    \cup { Call("deleteMatching", Undef, q, "", <<>>, Undef) : q \in Templates }

\* the calls of the callers that run at the same time
ConcurrentCalls ==
    { Call("get", Num(5), <<>>, "", <<>>, Undef),
      Call("all", Undef, <<>>, "", <<>>, Undef),
      Call("deleteWhere", Undef, <<>>, "age > ?", <<Num(30)>>, Undef),
      Call("update", Undef,
           <<Entry("id", Num(5)), Entry("name", Str("X"))>>, "", <<>>, Undef) }

Procs == {"c1", "c2"}

SelectOps == {"get", "all", "find", "one", "selectWhere"}

\* what the pool can answer to a statement that succeeds
SomeRow == <<Entry("id", Num(5)), Entry("name", Str("X"))>>

SelectResults == { <<>>, <<Obj(SomeRow)>> }

WriteResults ==
    [affectedRows : {Num(0), Num(1)},
     insertId : {Undef} \cup {Num(n) : n \in 0..MaxInsertId}]

ResultsFor(op) == IF op \in SelectOps THEN SelectResults ELSE WriteResults

----------------------------------------------------------------------------
(* The state machine. *)

Idle == [pc |-> "idle"]

Init ==
    /\ \E tb \in Tables : table = tb.name /\ rows = tb.rows
    /\ options \in {DefaultOptions, BareOptions}
    /\ metadata = Null
    /\ task = [p \in Procs |-> Idle]
    /\ showCalls = 0
    /\ showFails = 0
    /\ assigns = 0
    /\ nops = 0

\* fetchMetadata without the test: it asks the pool every time
cacheUnsetAlways(md) == TRUE

\* the test fetchMetadata makes before it asks the pool
cacheUnset(md) == isNil(md)

\* the statement the then-callback of call c builds
buildStatement(c, tbl, opts, md) ==
    CASE c.op = "get" -> buildGet(tbl, c.id)
      [] c.op = "all" -> buildAll(tbl, c.opts, md)
      [] c.op \in {"find", "one"} -> buildFind(tbl, c.obj, c.opts, md)
      [] c.op = "selectWhere" ->
            buildSelectWhere(tbl, c.where, c.parms, c.opts, md)
      [] c.op = "create" -> buildCreate(tbl, c.obj, opts, md)
      [] c.op = "update" -> buildUpdate(tbl, c.obj, opts, md)
      [] c.op = "deleteOne" -> buildDeleteOne(tbl, c.obj, md)
      [] c.op = "delete" -> buildDelete(tbl, c.id)
      [] c.op = "deleteMatching" -> buildDeleteMatching(tbl, c.obj)
      [] OTHER -> buildDeleteWhere(tbl, c.where, c.parms)

\* what the catch of operation op rejects with
rejection(op, err) ==
    IF op \in {"deleteMatching", "deleteWhere"} THEN err.code ELSE err

\* the key column looked up by {pk: true} alone
RECURSIVE findKeyColAnyPk(_)
findKeyColAnyPk(md) ==
    IF md = <<>> THEN Undef
    ELSE IF Head(md).pk THEN Str(Head(md).column)
    ELSE findKeyColAnyPk(Tail(md))

\* _.find(self.metadata, {autoincrement: true, pk: true})
RECURSIVE findKeyCol(_)
findKeyCol(md) ==
    IF md = <<>> THEN Undef
    ELSE IF Head(md).autoincrement /\ Head(md).pk THEN Str(Head(md).column)
    ELSE findKeyCol(Tail(md))

\* the object create resolves with
createResult(save, results, md) ==
    IF /\ results.affectedRows.n > 0
       /\ ~isNil(results.insertId)
       /\ results.insertId.n > 0
    THEN LET keyCol == findKeyCol(md)
         IN  IF ~isNil(keyCol)
             THEN setProp(save, keyCol.s, results.insertId)
             ELSE save
    ELSE save

firstOrEmpty(results) ==
    IF Len(results) > 0 THEN results[1] ELSE Obj(<<>>)

\* [save, value]: the caller's object afterwards, and the value resolved
shapeResult(c, save, results, md) ==
    CASE c.op \in {"get", "one"} ->
            [save |-> save, value |-> firstOrEmpty(results)]
      [] c.op \in {"all", "find", "selectWhere"} ->
            [save |-> save, value |-> Arr(results)]
      [] c.op = "create" ->
            LET s == createResult(save, results, md)
            IN  [save |-> s, value |-> Obj(s)]
      [] c.op \in {"update", "deleteOne", "deleteMatching"} ->
            LET s == setProp(save, "_affectedRows", results.affectedRows)
            IN  [save |-> s, value |-> Obj(s)]
      [] OTHER ->
            [save |-> save,
             value |-> Obj(<<Entry("_affectedRows", results.affectedRows)>>)]

\* a finished task: raised is the error caught, results the pool's answer
Rejected(t, failedAt, err) ==
    [pc |-> "done", call |-> t.call, save |-> t.save, stmt |-> t.stmt,
     outcome |-> "rejected", failedAt |-> failedAt, raised |-> err,
     results |-> Undef, value |-> rejection(t.call.op, err)]

Resolved(t, results, shaped) ==
    [pc |-> "done", call |-> t.call, save |-> shaped.save, stmt |-> t.stmt,
     outcome |-> "resolved", failedAt |-> "", raised |-> Undef,
     results |-> results, value |-> shaped.value]

NoStatement == [thrown |-> FALSE, sql |-> "", parms |-> <<>>]

\* a caller calls an operation: its executor calls fetchMetadata, which hands
\* SHOW COLUMNS to the pool when the cache is unset and resolves otherwise
Start(p, c) ==
    /\ task[p].pc = "idle"
    /\ nops < MaxOps
    /\ nops' = nops + 1
    /\ IF cacheUnset(metadata)
       THEN /\ showCalls' = showCalls + 1
            /\ task' = [task EXCEPT ![p] =
                  [pc |-> "introspecting", call |-> c, save |-> c.obj,
                   stmt |-> NoStatement]]
       ELSE /\ showCalls' = showCalls
            /\ task' = [task EXCEPT ![p] =
                  [pc |-> "ready", call |-> c, save |-> c.obj,
                   stmt |-> NoStatement]]
    /\ UNCHANGED <<rows, table, options, metadata, showFails, assigns>>

\* an operation is called while no other is in flight
StartAlone(p, c) ==
    /\ \A q \in Procs : task[q].pc = "idle"
    /\ Start(p, c)

\* SHOW COLUMNS succeeds: fetchMetadata assigns the cache and resolves
IntrospectOk(p) ==
    /\ task[p].pc = "introspecting"
    /\ metadata' = Arr(parseMetadata(rows, options))
    /\ assigns' = assigns + 1
    /\ task' = [task EXCEPT ![p].pc = "ready"]
    /\ UNCHANGED <<rows, table, options, showCalls, showFails, nops>>

\* SHOW COLUMNS fails: fetchMetadata rejects, and so does the operation
IntrospectFail(p, err) ==
    /\ task[p].pc = "introspecting"
    /\ task' = [task EXCEPT ![p] = Rejected(task[p], "introspect", err)]
    /\ showFails' = showFails + 1
    /\ UNCHANGED <<rows, table, options, metadata, showCalls, assigns, nops>>

\* the then-callback: builds the statement and hands it to the pool, or throws
Build(p) ==
    /\ task[p].pc = "ready"
    /\ LET st == buildStatement(task[p].call, table, options, metadata.a)
       IN  task' = [task EXCEPT ![p] =
              IF st.thrown
              THEN Rejected(task[p], "build", st.err)
              ELSE [task[p] EXCEPT !.pc = "exec", !.stmt = st]]
    /\ UNCHANGED
          <<rows, table, options, metadata, showCalls, showFails, assigns, nops>>

\* the pool answers the statement
ExecOk(p) ==
    /\ task[p].pc = "exec"
    /\ \E results \in ResultsFor(task[p].call.op) :
          task' = [task EXCEPT ![p] =
             Resolved(task[p], results,
                      shapeResult(task[p].call, task[p].save, results,
                                  metadata.a))]
    /\ UNCHANGED
          <<rows, table, options, metadata, showCalls, showFails, assigns, nops>>

\* the pool fails the statement
ExecFail(p, err) ==
    /\ task[p].pc = "exec"
    /\ task' = [task EXCEPT ![p] = Rejected(task[p], "exec", err)]
    /\ UNCHANGED
          <<rows, table, options, metadata, showCalls, showFails, assigns, nops>>

\* the caller has its answer and may call again
Return(p) ==
    /\ task[p].pc = "done"
    /\ task' = [task EXCEPT ![p] = Idle]
    /\ UNCHANGED
          <<rows, table, options, metadata, showCalls, showFails, assigns, nops>>

Progress(p) ==
    \/ IntrospectOk(p)
    \/ \E err \in DbErrors : IntrospectFail(p, err)
    \/ Build(p)
    \/ ExecOk(p)
    \/ \E err \in DbErrors : ExecFail(p, err)
    \/ Return(p)

\* operations run one after another
Next == \E p \in Procs : (\E c \in Calls : StartAlone(p, c)) \/ Progress(p)

Spec == Init /\ [][Next]_vars

\* operations of two callers overlap
NextConcurrent ==
    \E p \in Procs : (\E c \in ConcurrentCalls : Start(p, c)) \/ Progress(p)

SpecConcurrent == Init /\ [][NextConcurrent]_vars

----------------------------------------------------------------------------
(* Properties. *)

Running(p) == task[p].pc # "idle"
Sent(p) == task[p].pc = "exec"
Done(p) == task[p].pc = "done"
Op(p) == task[p].call.op

CacheSet == ~isNil(metadata)

\* C1: operations started while the cache is unset share one SHOW COLUMNS
\* call: no second call is handed to the pool while one is pending, and the
\* cache is assigned at most once.
C1_OneSharedIntrospection ==
    /\ Cardinality({p \in Procs : task[p].pc = "introspecting"}) <= 1
    /\ assigns <= 1

\* C2: with operations run one after another, once the cache is set no
\* operation hands SHOW COLUMNS to the pool and the cache is never reset or
\* replaced; when no introspection failed, the handle made exactly one call.
C2_IntrospectOnce ==
    /\ [](CacheSet /\ showFails = 0 => showCalls = 1 /\ assigns = 1)
    /\ [][CacheSet =>
            /\ showCalls' = showCalls
            /\ assigns' = assigns
            /\ metadata' = metadata]_vars

\* a second operation has reached the pool on the cache of the first
C2_Witness ==
    /\ CacheSet
    /\ showCalls = 1
    /\ nops >= 2
    /\ \E p \in Procs : Sent(p)

\* C3: an operation whose SHOW COLUMNS call fails is rejected with that
\* failure and leaves the cache unset. (That the next operation then makes
\* a fresh call is C3_RetryAfterFailure.)
C3_FailureSurfaces ==
    \A p \in Procs :
        Done(p) /\ task[p].failedAt = "introspect" =>
            /\ task[p].outcome = "rejected"
            /\ task[p].value = task[p].raised
            /\ isNil(metadata)

\* the part of C3 the code keeps: after a failed introspection the cache is
\* unset, and an operation started on an unset cache makes a new call
C3_RetryAfterFailure ==
    /\ [](\A p \in Procs :
            Done(p) /\ task[p].failedAt = "introspect" => isNil(metadata))
    /\ [][\A p \in Procs :
            ~Running(p) /\ Running(p)' /\ isNil(metadata) =>
                showCalls' = showCalls + 1]_vars

----------------------------------------------------------------------------
(* Statement text, read back independently of the builders. *)

endsWith(s, suffix) ==
    Len(s) >= Len(suffix)
    /\ SubSeq(s, Len(s) - Len(suffix) + 1, Len(s)) = suffix

Occurrences(s, sub) ==
    {i \in 1..(Len(s) - Len(sub) + 1) : SubSeq(s, i, i + Len(sub) - 1) = sub}

contains(s, sub) == Occurrences(s, sub) # {}

RECURSIVE JoinWith(_, _)
JoinWith(strs, sep) ==
    IF Len(strs) = 0 THEN ""
    ELSE IF Len(strs) = 1 THEN strs[1]
    ELSE strs[1] \o sep \o JoinWith(Tail(strs), sep)

\* the table as the engine reports it
KeyRows == SelectSeq(rows, LAMBDA r : r.Key = "PRI")
KeyNames == [i \in 1..Len(KeyRows) |-> KeyRows[i].Field]
HasAutoIncrementKey ==
    \E i \in 1..Len(rows) :
        rows[i].Key = "PRI" /\ rows[i].Extra = "auto_increment"
HasAutoIncrement ==
    \E i \in 1..Len(rows) : rows[i].Extra = "auto_increment"

\* C4: the WHERE clause of update and deleteOne is one <col>=? per key
\* column and nothing else, joined by AND in metadata order (empty for a
\* table without key), and the key values of the input object are bound in
\* that order after the SET parameters.
C4_KeyPredicate ==
    \A p \in Procs :
        Sent(p) /\ Op(p) \in {"update", "deleteOne"} =>
            LET st == task[p].stmt
                n == Len(KeyNames)
                where == JoinWith([i \in 1..n |-> KeyNames[i] \o "=?"], " AND ")
                keyVals == [i \in 1..n |-> getProp(task[p].call.obj, KeyNames[i])]
            IN  /\ endsWith(st.sql, " WHERE " \o where)
                /\ Cardinality(Occurrences(st.sql, " WHERE ")) = 1
                /\ Len(st.parms) >= n
                /\ \A i \in 1..n :
                      st.parms[Len(st.parms) - n + i] = keyVals[i]
                /\ Cardinality(Occurrences(st.sql, "=?")) = Len(st.parms)
                /\ Op(p) = "deleteOne" =>
                      st.sql = "DELETE FROM " \o table \o " WHERE " \o where
                /\ Op(p) = "update" =>
                      startsWith(st.sql, "UPDATE " \o table \o " SET ")

\* an update with a SET parameter on the table with the composite key
C4_Witness ==
    \E p \in Procs :
        /\ Sent(p)
        /\ Op(p) = "update"
        /\ table = "t_pair"
        /\ Len(task[p].stmt.parms) = 3

KeyAndName == <<Entry("id", Num(5)), Entry("name", Str("X"))>>

FullCustomer ==
    <<Entry("name", Str("X")), Entry("id", Num(5)), Entry("version", Num(3)),
      Entry("updated", Str(IsoDate)), Entry("created", Str(IsoDate)),
      Entry("age", Str(""))>>

HasVersionAndUpdated ==
    /\ options = DefaultOptions
    /\ \E i \in 1..Len(rows) : rows[i].Field = "version"
    /\ \E i \in 1..Len(rows) : rows[i].Field = "updated"

\* C5 as stated: update({id:5, name:"X"}) on a table with a version and an
\* updated column sets version=version+1, updated=CURRENT_TIMESTAMP and
\* name=?, with parameters ["X", 5].
C5_AlwaysBumpsVersion ==
    \A p \in Procs :
        /\ Sent(p)
        /\ Op(p) = "update"
        /\ task[p].call.obj = KeyAndName
        /\ table = "t_customer"
        /\ HasVersionAndUpdated
        => /\ task[p].stmt.sql =
                "UPDATE t_customer SET version=version+1, "
                \o "updated=CURRENT_TIMESTAMP, name=? WHERE id=?"
           /\ task[p].stmt.parms = <<Str("X"), Num(5)>>

\* C5 amended: update writes only the fields the input object carries, in
\* the object's order: {id:5, name:"X"} gives SET name=? WHERE id=? with
\* ["X", 5]; version=version+1 and updated=CURRENT_TIMESTAMP are emitted,
\* without bound parameters, exactly when the object carries those fields.
C5_SparseUpdate ==
    \A p \in Procs :
        Sent(p) /\ Op(p) = "update" /\ HasVersionAndUpdated =>
            LET st == task[p].stmt
                obj == task[p].call.obj
            IN  /\ contains(st.sql, "version=version+1") <=> hasKey(obj, "version")
                /\ contains(st.sql, "updated=CURRENT_TIMESTAMP")
                      <=> hasKey(obj, "updated")
                /\ ~contains(st.sql, "version=?")
                /\ ~contains(st.sql, "updated=?")
                /\ Cardinality(Occurrences(st.sql, "?")) = Len(st.parms)
                /\ table = "t_customer" /\ obj = KeyAndName =>
                      /\ st.sql = "UPDATE t_customer SET name=? WHERE id=?"
                      /\ st.parms = <<Str("X"), Num(5)>>
                /\ table = "t_customer" /\ obj = FullCustomer =>
                      /\ st.sql = "UPDATE t_customer SET name=?, "
                            \o "version=version+1, updated=CURRENT_TIMESTAMP, "
                            \o "age=? WHERE id=?"
                      /\ st.parms = <<Str("X"), Null, Num(5)>>

\* update({id:5, name:"X"}) has reached the pool on such a table
C5_Witness ==
    \E p \in Procs :
        /\ Sent(p)
        /\ Op(p) = "update"
        /\ task[p].call.obj = KeyAndName
        /\ table = "t_customer"
        /\ HasVersionAndUpdated

\* the first auto-increment key column the engine reports
AutoKeyName ==
    rows[CHOOSE i \in 1..Len(rows) :
            /\ rows[i].Key = "PRI" /\ rows[i].Extra = "auto_increment"
            /\ \A j \in 1..(i - 1) :
                  ~(rows[j].Key = "PRI" /\ rows[j].Extra = "auto_increment")].Field

\* the pool reported a generated id for an insert that wrote a row
ReportsGeneratedId(results) ==
    /\ results.affectedRows.n > 0
    /\ ~isNil(results.insertId)
    /\ results.insertId.n > 0

\* C6: create on a table with an auto-increment key column, when the engine
\* reports generated id g, resolves with the input object whose key field is
\* g (its other fields as given); on a table without auto-increment column
\* it resolves with the input object as given, whatever id the engine reports.
C6_GeneratedKey ==
    \A p \in Procs :
        Done(p) /\ Op(p) = "create" /\ task[p].outcome = "resolved" =>
            LET given == task[p].call.obj
                out == task[p].value
                r == task[p].results
            IN  /\ out = Obj(task[p].save)
                /\ HasAutoIncrementKey /\ ReportsGeneratedId(r) =>
                      /\ getProp(out.o, AutoKeyName) = r.insertId
                      /\ \A i \in 1..Len(given) :
                            given[i].k # AutoKeyName =>
                                getProp(out.o, given[i].k) = given[i].v
                      /\ \A i \in 1..Len(out.o) :
                            out.o[i].k # AutoKeyName => hasKey(given, out.o[i].k)
                /\ ~HasAutoIncrement => out.o = given

\* create resolved with a generated id that replaced the one the caller gave
C6_Witness ==
    \E p \in Procs :
        /\ Done(p)
        /\ Op(p) = "create"
        /\ task[p].outcome = "resolved"
        /\ HasAutoIncrementKey
        /\ task[p].results.insertId = Num(MaxInsertId)
        /\ getProp(task[p].call.obj, "id") = Num(5)
        /\ getProp(task[p].value.o, "id") = Num(MaxInsertId)

\* the column types the empty string is no value for
EmptyIsAbsent(type) ==
    \/ type \in {"datetime", "timestamp"}
    \/ Len(type) >= 3 /\ SubSeq(type, 1, 3) \in {"int", "num", "dec"}

\* the columns create binds a parameter for
BoundOnCreate(i) ==
    /\ ~(rows[i].Key = "PRI" /\ rows[i].Extra = "auto_increment")
    /\ Str(rows[i].Field) \notin
          {options.created_timestamp_column, options.updated_timestamp_column,
           options.version_number_column}

\* C7: the empty string against a datetime, timestamp, int*, num* or dec*
\* column fails when the column is not nullable and becomes null when it is;
\* against any other column type it is returned unchanged, and null and
\* undefined are returned unchanged for every column type.  create hands no
\* statement to the pool with an empty value for a column that forbids it.
C7_EmptyString ==
    /\ CacheSet =>
          \A i \in 1..Len(rows) :
              LET col == metadata.a[i]
                  absent == EmptyIsAbsent(rows[i].Type)
                  nullable == rows[i].Nullable = "YES"
                  r == transformToSafeValue(Str(""), col)
              IN  /\ absent /\ ~nullable => r.thrown
                  /\ absent /\ nullable => ~r.thrown /\ r.out = Null
                  /\ ~absent => ~r.thrown /\ r.out = Str("")
                  /\ \A v \in {Null, Undef} :
                        LET rv == transformToSafeValue(v, col)
                        IN  ~rv.thrown /\ rv.out = v
    /\ \A p \in Procs :
          Sent(p) /\ Op(p) = "create" =>
              \A i \in 1..Len(rows) :
                  /\ BoundOnCreate(i)
                  /\ EmptyIsAbsent(rows[i].Type)
                  /\ getProp(task[p].call.obj, rows[i].Field) = Str("")
                  => /\ rows[i].Nullable = "YES"
                     /\ \E k \in 1..Len(task[p].stmt.parms) :
                           task[p].stmt.parms[k] = Null
    /\ \A p \in Procs :
          Done(p) /\ task[p].failedAt = "build"
          /\ Op(p) \in {"create", "update"} =>
              \E i \in 1..Len(rows) :
                  /\ EmptyIsAbsent(rows[i].Type)
                  /\ rows[i].Nullable # "YES"
                  /\ getProp(task[p].call.obj, rows[i].Field) = Str("")
                  /\ task[p].raised =
                        Thrown(rows[i].Field \o " is not permitted to be empty.")

\* create was rejected for an empty value of a decimal column that is not
\* nullable
C7_Witness ==
    \E p \in Procs :
        /\ Done(p)
        /\ Op(p) = "create"
        /\ task[p].failedAt = "build"
        /\ task[p].raised = Thrown("qty is not permitted to be empty.")

\* one orderBy token as ORDER BY lists it
OrderTerm(token) ==
    IF Len(token) > 0 /\ SubSeq(token, 1, 1) = "-"
    THEN SubSeq(token, 2, Len(token)) \o " DESC"
    ELSE IF Len(token) > 0 /\ SubSeq(token, 1, 1) = "+"
    THEN SubSeq(token, 2, Len(token)) \o " ASC"
    ELSE token \o " ASC"

CallerOrders(opts) ==
    ~isNil(opts) /\ ~isNil(opts.orderBy) /\ Len(opts.orderBy.a) > 0

ActiveNewestFirst ==
    Call("find", Undef, <<Entry("status", Str("active"))>>, "", <<>>,
         Opts(Arr(<<"-created">>), Num(10), Undef, Undef))

\* C8: find with a non-empty template and the caller's orderBy and limit
\* sends one column=? per template entry in the template's order, joined by
\* the boolean mode (AND by default), then ORDER BY with each token stripped
\* of its sign and mapped to ASC or DESC, then LIMIT <limit>; the
\* parameters are the template's values as given, in the same order.
C8_FindStatement ==
    \A p \in Procs :
        /\ Sent(p)
        /\ Op(p) = "find"
        /\ Len(task[p].call.obj) > 0
        /\ CallerOrders(task[p].call.opts)
        /\ ~isNil(task[p].call.opts.limit)
        => LET q == task[p].call.obj
               o == task[p].call.opts
               st == task[p].stmt
               mode == IF isNil(o.booleanMode) THEN "AND" ELSE o.booleanMode.s
               pred == JoinWith([i \in 1..Len(q) |-> q[i].k \o "=?"],
                                " " \o mode \o " ")
               order == JoinWith([i \in 1..Len(o.orderBy.a) |->
                                    OrderTerm(o.orderBy.a[i])], ", ")
               offset == IF isNil(o.offset) THEN ""
                         ELSE " OFFSET " \o ToString(o.offset.n)
           IN  /\ st.sql = "SELECT * FROM " \o table \o "  WHERE " \o pred
                     \o " ORDER BY " \o order
                     \o " LIMIT " \o ToString(o.limit.n) \o offset
               /\ Len(st.parms) = Len(q)
               /\ \A i \in 1..Len(q) : st.parms[i] = q[i].v
               /\ task[p].call = ActiveNewestFirst =>
                     /\ endsWith(st.sql, " ORDER BY created DESC LIMIT 10")
                     /\ st.parms = <<Str("active")>>

\* find({status:"active"}, {orderBy:["-created"], limit:10}) has reached the
\* pool
C8_Witness ==
    \E p \in Procs : Sent(p) /\ task[p].call = ActiveNewestFirst

\* the trailing clauses of a SELECT: from the first ORDER BY or LIMIT on
RECURSIVE Trailing(_)
Trailing(sql) ==
    IF sql = "" THEN ""
    ELSE IF startsWith(sql, " ORDER BY") \/ startsWith(sql, " LIMIT")
    THEN sql
    ELSE Trailing(SubSeq(sql, 2, Len(sql)))


\* C9: without a caller's orderBy, all, find and selectWhere order by every
\* key column ascending, in metadata order, separated by commas; on a table
\* without key column there is no ORDER BY at all.
C9_DefaultOrder ==
    \A p \in Procs :
        /\ Sent(p)
        /\ Op(p) \in {"all", "find", "selectWhere"}
        /\ ~CallerOrders(task[p].call.opts)
        => LET tail == Trailing(task[p].stmt.sql)
               order == " ORDER BY "
                        \o JoinWith([i \in 1..Len(KeyNames) |->
                                       KeyNames[i] \o " ASC"], ", ")
           IN  IF Len(KeyNames) = 0
               THEN ~contains(task[p].stmt.sql, "ORDER BY")
               ELSE /\ startsWith(tail, order)
                    /\ LET rest == SubSeq(tail, Len(order) + 1, Len(tail))
                       IN  rest = "" \/ startsWith(rest, " LIMIT ")

\* C10: every SELECT of all, find, one and selectWhere ends with LIMIT: the
\* caller's limit, or 1000 when none is given or the options are omitted;
\* OFFSET <n> follows exactly when the caller gave an offset.
C10_AlwaysLimited ==
    \A p \in Procs :
        Sent(p) /\ Op(p) \in {"all", "find", "one", "selectWhere"} =>
            LET o == task[p].call.opts
                limit == IF ~isNil(o) /\ ~isNil(o.limit)
                         THEN ToString(o.limit.n) ELSE "1000"
                offset == IF ~isNil(o) /\ ~isNil(o.offset)
                          THEN " OFFSET " \o ToString(o.offset.n) ELSE ""
            IN  /\ endsWith(task[p].stmt.sql, " LIMIT " \o limit \o offset)
                /\ contains(task[p].stmt.sql, " OFFSET ")
                      <=> (~isNil(o) /\ ~isNil(o.offset))

\* the object names a column update would set: one that is no key and not the
\* created-timestamp column
YieldsSetEntry(obj) ==
    \E i \in 1..Len(obj), j \in 1..Len(rows) :
        /\ obj[i].k = rows[j].Field
        /\ rows[j].Key # "PRI"
        /\ Str(rows[j].Field) # options.created_timestamp_column

\* a call with an empty template, or an update with nothing to set
EmptyRequest(c) ==
    \/ c.op \in {"find", "one", "deleteMatching"} /\ Len(c.obj) = 0
    \/ c.op = "update" /\ ~YieldsSetEntry(c.obj)

\* C11: find, one and deleteMatching with an empty template, and update with
\* an object that yields no SET entry, are rejected with a validation error
\* and hand no statement to the pool.
C11_EmptyRejected ==
    \A p \in Procs :
        Running(p) /\ EmptyRequest(task[p].call) =>
            /\ ~Sent(p)
            /\ Done(p) =>
                  /\ task[p].outcome = "rejected"
                  /\ task[p].stmt = NoStatement
                  /\ task[p].failedAt # "introspect" =>
                        /\ task[p].failedAt = "build"
                        /\ task[p].value = task[p].raised
                        /\ task[p].value.t = "err"

\* C12: when the pool fails the statement of an operation with error e, the
\* operation is rejected with e itself, and the statement is not handed to
\* the pool again.
C12_ExecutionErrorForwarded ==
    \A p \in Procs :
        Done(p) /\ task[p].failedAt = "exec" =>
            /\ task[p].outcome = "rejected"
            /\ task[p].value = task[p].raised
            /\ task[p].results = Undef

\* C13: deleteMatching with a non-empty criteria object sends
\* DELETE FROM <table> WHERE <k1>=? AND <k2>=? ... with the criteria values
\* as parameters, and resolves with the criteria object plus the
\* affected-row count.
C13_DeleteMatchingStatement ==
    \A p \in Procs :
        Running(p) /\ Op(p) = "deleteMatching" /\ Len(task[p].call.obj) > 0 =>
            LET q == task[p].call.obj
            IN  /\ Done(p) => task[p].failedAt # "build"
                /\ Sent(p) =>
                      /\ task[p].stmt.sql =
                            "DELETE FROM " \o table \o " WHERE "
                            \o JoinWith([i \in 1..Len(q) |-> q[i].k \o "=?"],
                                        " AND ")
                      /\ task[p].stmt.parms = [i \in 1..Len(q) |-> q[i].v]
                /\ Done(p) /\ task[p].outcome = "resolved" =>
                      task[p].value =
                          Obj(Append(q, Entry("_affectedRows",
                                              task[p].results.affectedRows)))

\* C14: selectWhere sends the caller's where text verbatim after WHERE, with
\* the caller's parms, unchanged and in order, as the bound parameters.
C14_SelectWhereParms ==
    \A p \in Procs :
        Sent(p) /\ Op(p) = "selectWhere" =>
            /\ startsWith(task[p].stmt.sql,
                          "SELECT * FROM " \o table \o "  WHERE "
                          \o task[p].call.where)
            /\ task[p].stmt.parms = task[p].call.parms

\* what deleteWhere does for its parms, and C14 says selectWhere does too
C14_DeleteWhereParms ==
    \A p \in Procs :
        Sent(p) /\ Op(p) = "deleteWhere" =>
            /\ task[p].stmt.sql =
                  "DELETE FROM " \o table \o " WHERE " \o task[p].call.where
            /\ task[p].stmt.parms = task[p].call.parms

\* the columns update binds a coerced parameter for
BoundOnUpdate(j) ==
    /\ rows[j].Key # "PRI"
    /\ Str(rows[j].Field) \notin
          {options.created_timestamp_column, options.updated_timestamp_column,
           options.version_number_column}

\* the call carries an empty string for a column it would write and that
\* forbids it
CoercionFails(c) ==
    \/ /\ c.op = "create"
       /\ \E j \in 1..Len(rows) :
             /\ BoundOnCreate(j)
             /\ EmptyIsAbsent(rows[j].Type)
             /\ rows[j].Nullable # "YES"
             /\ getProp(c.obj, rows[j].Field) = Str("")
    \/ /\ c.op = "update"
       /\ \E j \in 1..Len(rows) :
             /\ BoundOnUpdate(j)
             /\ EmptyIsAbsent(rows[j].Type)
             /\ rows[j].Nullable # "YES"
             /\ getProp(c.obj, rows[j].Field) = Str("")

\* C15: when coercion fails during create or update, or SHOW COLUMNS fails,
\* the operation is rejected, no INSERT or UPDATE is handed to the pool for
\* that call, and the caller's object is left as given.
C15_FailFast ==
    \A p \in Procs :
        Running(p) /\ Op(p) \in {"create", "update"} =>
            /\ CoercionFails(task[p].call) =>
                  /\ ~Sent(p)
                  /\ task[p].stmt = NoStatement
                  /\ task[p].save = task[p].call.obj
                  /\ Done(p) =>
                        /\ task[p].outcome = "rejected"
                        /\ task[p].failedAt \in {"introspect", "build"}
                        /\ task[p].value = task[p].raised
            /\ Done(p) /\ task[p].failedAt = "introspect" =>
                  /\ task[p].outcome = "rejected"
                  /\ task[p].value = task[p].raised
                  /\ task[p].stmt = NoStatement
                  /\ task[p].save = task[p].call.obj
            /\ Done(p) /\ task[p].failedAt = "build" =>
                  CoercionFails(task[p].call)

\* update was rejected for a disallowed empty value, after the metadata was
\* fetched
C15_Witness ==
    \E p \in Procs :
        /\ Done(p)
        /\ Op(p) = "update"
        /\ CoercionFails(task[p].call)
        /\ task[p].failedAt = "build"
        /\ task[p].outcome = "rejected"

====
